---- MODULE Spec2Model ----
(***************************************************************************)
(* Real-time fan-out and per-recipient translation pipeline of the chat    *)
(* application: the SSE connection registry and broadcaster                *)
(* (lib/sse-broadcast.ts, api/realtime/route.ts), the translation cache    *)
(* (lib/translation-cache.ts), the translator client (FeatherlessTranslator*)
(* in lib/realtime.ts) and the send-message handler                        *)
(* (api/conversations/[id]/messages/route.ts).                             *)
(*                                                                         *)
(* The server is one Node.js process: a handler runs without interruption  *)
(* from one await to the next, so every action below is the code between   *)
(* two suspension points.                                                  *)
(***************************************************************************)
EXTENDS Integers, Sequences, FiniteSets, TLC

\* ------------------------------------------------------------------ bounds
\* Physical SSE channels (ReadableStream controllers) opened in one run.
MaxChannels == 2
\* Date.now() reads 0..MaxNow; two reads without a Tick between them are equal.
MaxNow == 1

\* ------------------------------------------------------------ the universe
Users == {"A", "B", "C"}
Conversations == {"c1", "c2"}
\* searchParams.get('conversationId') === null
NoConv == "none"
Channels == 1..MaxChannels

\* connectionId = `${userId}-${Date.now()}`
ConnectionId(userId, t) == <<userId, t>>

VARIABLES
  now,                      \* Date.now()
  channels,                 \* per physical channel: controller state, closure variables of start()
  connections,              \* Map<connectionId, {controller, userId, conversationIds}>
  conversationSubscribers,  \* Map<conversationId, Set<connectionId>>
  memoryCache,              \* TranslationCache.memoryCache
  stats,                    \* TranslationCache.stats
  cacheCalls,               \* direct get/set calls on the cache: those in flight, and what each returned
  calls,                    \* translateText calls, one slot per caller
  endpoint,                 \* what the external endpoint has done so far
  send,                     \* the POST send-message request of the run
  client                    \* one browser's SSERealtimeService and its EventSources

registryVars == <<channels, connections, conversationSubscribers>>
cacheVars == <<memoryCache, stats>>
translatorVars == <<calls, endpoint>>
vars == <<now, channels, connections, conversationSubscribers, memoryCache, stats,
          cacheCalls, calls, endpoint, send, client>>

\* A channel that start() has not run for yet.
FreshChannel ==
  [state |-> "none", connectionId |-> <<>>, userId |-> "none",
   conversationId |-> NoConv, heartbeat |-> FALSE, listening |-> FALSE,
   received |-> <<>>]

\* --------------------------------------------------- lib/sse-broadcast.ts
MapSet(m, k, v) == [x \in DOMAIN m \cup {k} |-> IF x = k THEN v ELSE m[x]]
MapDelete(m, k) == [x \in DOMAIN m \ {k} |-> m[x]]

addConnection(conns, connectionId, connection) ==
  MapSet(conns, connectionId, connection)

removeConnection(conns, connectionId) ==
  MapDelete(conns, connectionId)

addSubscriber(subs, conversationId, connectionId) ==
  LET withKey == IF conversationId \in DOMAIN subs THEN subs
                 ELSE MapSet(subs, conversationId, {})
  IN  [withKey EXCEPT ![conversationId] = @ \cup {connectionId}]

removeSubscriber(subs, conversationId, connectionId) ==
  IF conversationId \in DOMAIN subs
  THEN [subs EXCEPT ![conversationId] = @ \ {connectionId}]
  ELSE subs

\* controller.enqueue throws once the stream is closed.
EnqueueThrows(chs, ch) == chs[ch].state # "open"

Enqueue(chs, targets, event) ==
  [ch \in Channels |->
     IF ch \in targets
     THEN [chs[ch] EXCEPT !.received = Append(@, event)]
     ELSE chs[ch]]

\* The registry after broadcastToConversation(conversationId, message):
\* [channels, connections, conversationSubscribers].
broadcastToConversation(chs, conns, subs, conversationId, message) ==
  IF conversationId \notin DOMAIN subs \/ subs[conversationId] = {}
  THEN [channels |-> chs, connections |-> conns, conversationSubscribers |-> subs]
  ELSE
    LET subscribers == subs[conversationId]
        found   == {id \in subscribers : id \in DOMAIN conns}
        failed  == {id \in found : EnqueueThrows(chs, conns[id].controller)}
        sent    == found \ failed
    IN  [channels |-> Enqueue(chs, {conns[id].controller : id \in sent}, message),
         connections |-> [id \in DOMAIN conns \ failed |-> conns[id]],
         conversationSubscribers |->
           [subs EXCEPT ![conversationId] = sent]]

\* The registry after broadcastToUser(userId, message).
\* broadcastToUser without the `connection.userId === userId` test.
broadcastToUserEveryone(chs, conns, subs, userId, message) ==
  LET failed == {id \in DOMAIN conns : EnqueueThrows(chs, conns[id].controller)}
      sent   == DOMAIN conns \ failed
  IN  [channels |-> Enqueue(chs, {conns[id].controller : id \in sent}, message),
       connections |-> [id \in DOMAIN conns \ failed |-> conns[id]],
       conversationSubscribers |-> subs]

broadcastToUser(chs, conns, subs, userId, message) ==
  LET owned  == {id \in DOMAIN conns : conns[id].userId = userId}
      failed == {id \in owned : EnqueueThrows(chs, conns[id].controller)}
      sent   == owned \ failed
  IN  [channels |-> Enqueue(chs, {conns[id].controller : id \in sent}, message),
       connections |-> [id \in DOMAIN conns \ failed |-> conns[id]],
       conversationSubscribers |-> subs]

\* ---------------------------------------------------------------- texts
\* A text is a sequence of one-character strings.
\* null, where the other values are records.
Null == [null |-> TRUE]

IsSpace(c) == c = " "

RECURSIVE TrimStart(_)
TrimStart(s) ==
  IF Len(s) > 0 /\ IsSpace(Head(s)) THEN TrimStart(Tail(s)) ELSE s

RECURSIVE TrimEnd(_)
TrimEnd(s) ==
  IF Len(s) > 0 /\ IsSpace(s[Len(s)]) THEN TrimEnd(SubSeq(s, 1, Len(s) - 1)) ELSE s

\* String.prototype.trim
Trim(s) == TrimEnd(TrimStart(s))

LowerChar(c) == IF c = "H" THEN "h" ELSE c

\* String.prototype.toLowerCase
ToLowerCase(s) == [i \in 1..Len(s) |-> LowerChar(s[i])]

\* The UTF-8 byte of each character the model's texts use.
CharCode(c) ==
  CASE c = " " -> 32
    [] c = "H" -> 72
    [] c = "a" -> 97
    [] c = "h" -> 104
    [] c = "i" -> 105
    [] c = "l" -> 108
    [] c = "o" -> 111

\* Base64 of a byte sequence as the sequence of its digits (0..63, 64 for '=').
RECURSIVE Base64Bytes(_)
Base64Bytes(b) ==
  IF Len(b) = 0 THEN <<>>
  ELSE IF Len(b) = 1
    THEN <<b[1] \div 4, (b[1] % 4) * 16, 64, 64>>
  ELSE IF Len(b) = 2
    THEN <<b[1] \div 4, (b[1] % 4) * 16 + b[2] \div 16, (b[2] % 16) * 4, 64>>
  ELSE <<b[1] \div 4, (b[1] % 4) * 16 + b[2] \div 16,
         (b[2] % 16) * 4 + b[3] \div 64, b[3] % 64>>
       \o Base64Bytes(SubSeq(b, 4, Len(b)))

\* Buffer.from(text).toString('base64')
Base64(text) == Base64Bytes([i \in 1..Len(text) |-> CharCode(text[i])])

\* ------------------------------------------------ lib/translation-cache.ts
\* Capacity of the memory tier: 1000 in the source, scaled down here; the
\* evicted share stays Math.floor(maxMemoryEntries * 0.1).
maxMemoryEntries == 10
\* 24 h in the source; the clock of the model ticks once per 24 h.
maxAge == 1

\* `${sourceLanguage}:${targetLanguage}:${base64(normalizedText)}`; the language
\* tags of the model hold no ':', so the three parts stay apart.
generateKey(text, sourceLanguage, targetLanguage) ==
  <<sourceLanguage, targetLanguage, Base64(ToLowerCase(Trim(text)))>>

\* The memory tier is a Map: a sequence of entries in insertion order, at most
\* one per key.
IndexOf(cache, key) ==
  IF \E i \in 1..Len(cache) : cache[i].id = key
  THEN CHOOSE i \in 1..Len(cache) : cache[i].id = key
  ELSE 0

\* Map.prototype.set: a present key keeps its place.
CachePut(cache, entry) ==
  IF IndexOf(cache, entry.id) = 0
  THEN Append(cache, entry)
  ELSE [cache EXCEPT ![IndexOf(cache, entry.id)] = entry]

RECURSIVE KeepAt(_, _, _)
KeepAt(cache, keep, i) ==
  IF i > Len(cache) THEN <<>>
  ELSE (IF i \in keep THEN <<cache[i]>> ELSE <<>>) \o KeepAt(cache, keep, i + 1)

\* A faulty isExpired that never expires an entry (C5 fails with it).
isExpiredNever(entry, t) == FALSE

isExpired(entry, t) == t - entry.timestamp > maxAge

\* Math.floor(this.maxMemoryEntries * 0.1)
toRemove == (maxMemoryEntries * 10) \div 100

\* Place of entry i after the stable sort by ascending hitCount.
SortedPlace(cache, i) ==
  Cardinality({j \in 1..Len(cache) :
     \/ cache[j].hitCount < cache[i].hitCount
     \/ cache[j].hitCount = cache[i].hitCount /\ j < i}) + 1

\* A faulty evictLeastUsed that removes the oldest entries, whatever their
\* hit counts.
evictLeastUsedOldest(cache) ==
  KeepAt(cache, {i \in 1..Len(cache) : i > toRemove}, 1)

\* A faulty evictLeastUsed that removes nothing (C6 fails with it).
evictLeastUsedKeepsAll(cache) == cache

evictLeastUsed(cache) ==
  KeepAt(cache, {i \in 1..Len(cache) : SortedPlace(cache, i) > toRemove}, 1)

cleanupExpired(cache, t) ==
  KeepAt(cache, {i \in 1..Len(cache) : ~(t - cache[i].timestamp > maxAge)}, 1)

\* A number as the fraction n/d in lowest terms (hitRate is a float).
RECURSIVE Gcd(_, _)
Gcd(a, b) == IF b = 0 THEN a ELSE Gcd(b, a % b)
Fraction(n, d) == IF n = 0 THEN [n |-> 0, d |-> 1]
                  ELSE [n |-> n \div Gcd(n, d), d |-> d \div Gcd(n, d)]

\* A faulty updateHitRate that leaves hitRate as it was (C7 fails with it).
updateHitRateStale(st) == st

updateHitRate(st) ==
  [st EXCEPT !.hitRate =
     IF st.totalRequests > 0
     THEN Fraction(st.cacheHits * 100, st.totalRequests)
     ELSE Fraction(0, 1)]

\* getFromDatabase is a placeholder that resolves to null.
getFromDatabase(key) == Null

\* get up to its await: [cache, stats, result]; result Null means the call
\* goes on to the database tier.
CacheGetLookup(cache, st, key, t) ==
  LET counted == [st EXCEPT !.totalRequests = @ + 1]
      i == IndexOf(cache, key)
  IN  IF i # 0 /\ ~isExpired(cache[i], t)
      THEN [cache  |-> [cache EXCEPT ![i].hitCount = @ + 1],
            stats  |-> updateHitRate([counted EXCEPT !.cacheHits = @ + 1]),
            result |-> [cache[i] EXCEPT !.hitCount = @ + 1]]
      ELSE [cache |-> cache, stats |-> counted, result |-> Null]

\* get after `await this.getFromDatabase(key)`: [cache, stats, result].
CacheGetDatabase(cache, st, key, t) ==
  LET dbResult == getFromDatabase(key)
  IN  IF dbResult # Null /\ ~isExpired(dbResult, t)
      THEN [cache  |-> CachePut(cache, dbResult),
            stats  |-> updateHitRate([st EXCEPT !.cacheHits = @ + 1]),
            result |-> dbResult]
      ELSE [cache  |-> cache,
            stats  |-> updateHitRate([st EXCEPT !.cacheMisses = @ + 1]),
            result |-> Null]

CachedTranslation(text, translatedText, sourceLanguage, targetLanguage, confidence, t) ==
  [id |-> generateKey(text, sourceLanguage, targetLanguage),
   originalText |-> text, translatedText |-> translatedText,
   sourceLanguage |-> sourceLanguage, targetLanguage |-> targetLanguage,
   confidence |-> confidence, timestamp |-> t, hitCount |-> 0]

\* set up to its await: [cache, stats].
CacheSetStore(cache, st, cached) ==
  LET stored == CachePut(cache, cached)
      kept   == IF Len(stored) > maxMemoryEntries THEN evictLeastUsed(stored) ELSE stored
  IN  [cache |-> kept, stats |-> [st EXCEPT !.memoryEntries = Len(kept)]]

\* set after `await this.saveToDatabase(cached)`.
CacheSetSaved(st) == [st EXCEPT !.dbEntries = @ + 1]

\* ------------------------------- FeatherlessTranslator (lib/realtime.ts)
maxRetries == 3

\* A confidence is kept in hundredths: 0.95 is 95, 0.5 is 50.
HighConfidence == 95
LowConfidence == 50
DefaultConfidence == 85
CacheThreshold == 50

validLangCodes ==
  {"en", "es", "fr", "de", "it", "pt", "ru", "ja", "ko", "zh", "ar", "hi"}

\* What one call of the external endpoint comes to: an HTTP answer that is ok
\* (content: choices[0].message.content), an HTTP error status, a timeout of the
\* race, or a fetch that rejects.
Answer(kind, status, content) == [kind |-> kind, status |-> status, content |-> content]

\* detectLanguage(text), given what its fetch came to.
detectLanguage(answer) ==
  IF answer.kind = "ok" /\ answer.content \in validLangCodes
  THEN answer.content
  ELSE "en"

calculateConfidence(originalText, translatedText) ==
  IF originalText = translatedText THEN HighConfidence
  ELSE IF \/ 10 * Len(translatedText) < 3 * Len(originalText)
          \/ Len(translatedText) > 3 * Len(originalText)
       THEN LowConfidence
       ELSE DefaultConfidence

\* The words shouldRetry looks for in error.message.
ErrorMessage(answer) ==
  CASE answer.kind = "timeout" -> {"timeout"}       \* 'Translation timeout'
    [] answer.kind = "network" -> {"fetch"}         \* 'fetch failed'
    [] answer.kind = "http"    ->                   \* `AI Translation API error: ${status} - ${text}`
         {answer.status} \cup {answer.content[i] : i \in DOMAIN answer.content}
    [] OTHER                   -> {}                \* 'No translation received ...'

shouldRetry(message) ==
  message \cap {"timeout", "fetch", "500", "502", "503", "504"} # {}

\* The answer makes the try block of translateWithRetry throw.
AttemptFails(answer) ==
  answer.kind # "ok" \/ Trim(answer.content) = <<>>

TranslationResponse(translatedText, detectedLanguage, confidence) ==
  [translatedText |-> translatedText, detectedLanguage |-> detectedLanguage,
   confidence |-> confidence]

IdleCall ==
  [pc |-> "idle", text |-> <<>>, targetLanguage |-> "", sourceLanguage |-> "",
   cached |-> Null, attempt |-> 0, fetches |-> 0, only500 |-> TRUE,
   result |-> Null]

\* translateText up to its first await: [call, cache, stats].
translateTextBegin(text, targetLanguage, sourceLanguage, cache, st, t) ==
  LET call == [IdleCall EXCEPT !.text = text, !.targetLanguage = targetLanguage,
                               !.sourceLanguage = sourceLanguage]
  IN  IF Trim(text) = <<>> \/ targetLanguage = ""
      THEN [call |-> [call EXCEPT !.pc = "rejected"], cache |-> cache, stats |-> st]
      ELSE LET r == CacheGetLookup(cache, st,
                      generateKey(text, sourceLanguage, targetLanguage), t)
           IN  [call |-> [call EXCEPT !.pc = "cacheGet", !.cached = r.result],
                cache |-> r.cache, stats |-> r.stats]

\* `await this.cache.get(...)` returns: a hit ends the call, a miss goes on to
\* detectLanguage.
TranslateCacheReturn(id) ==
  /\ calls[id].pc = "cacheGet"
  /\ IF calls[id].cached # Null
     THEN /\ calls' = [calls EXCEPT ![id].pc = "done",
                 ![id].result = TranslationResponse(calls[id].cached.translatedText,
                                                    calls[id].cached.sourceLanguage,
                                                    calls[id].cached.confidence)]
          /\ UNCHANGED cacheVars
     ELSE LET r == CacheGetDatabase(memoryCache, stats,
                     generateKey(calls[id].text, calls[id].sourceLanguage,
                                 calls[id].targetLanguage), now)
          IN  /\ memoryCache' = r.cache
              /\ stats' = r.stats
              /\ calls' = [calls EXCEPT ![id].pc = "detect"]
  /\ UNCHANGED <<now, client, registryVars, cacheCalls, endpoint, send>>

\* The fetch of detectLanguage returns: either the text is already in the
\* target language (cached as a pass-through) or translateWithRetry starts.
TranslateDetectReturn(id, answer) ==
  /\ calls[id].pc = "detect"
  /\ LET detectedLang == detectLanguage(answer)
         c == calls[id]
     IN  IF detectedLang = c.targetLanguage
         THEN LET r == CacheSetStore(memoryCache, stats,
                         CachedTranslation(c.text, c.text, detectedLang,
                                           c.targetLanguage, HighConfidence, now))
              IN  /\ memoryCache' = r.cache
                  /\ stats' = r.stats
                  /\ calls' = [calls EXCEPT ![id].pc = "save",
                        ![id].result = TranslationResponse(c.text, c.targetLanguage,
                                                           HighConfidence)]
         ELSE /\ calls' = [calls EXCEPT ![id].pc = "fetch", ![id].attempt = 1,
                                        ![id].fetches = @ + 1]
              /\ UNCHANGED cacheVars
  /\ endpoint' = [endpoint EXCEPT !.answered = @ \/ answer.kind = "ok"]
  /\ UNCHANGED <<now, client, registryVars, cacheCalls, send>>

\* A faulty test that lets every result into the cache.
ShouldCacheAlways(result) == TRUE

\* result.translatedText && result.confidence && result.confidence > 0.5
ShouldCache(result) ==
  /\ result.translatedText # <<>>
  /\ result.confidence # 0
  /\ result.confidence > CacheThreshold

\* One attempt of translateWithRetry returns (the race of the fetch and the
\* timeout, then the detectLanguage of a successful answer), and translateText
\* goes on with its result.
TranslateFetchReturn(id, answer, detectAnswer) ==
  /\ calls[id].pc = "fetch"
  /\ LET c == [calls[id] EXCEPT !.only500 = @ /\ answer = Answer("http", "500", <<>>)]
     IN  IF AttemptFails(answer)
         THEN /\ IF c.attempt < maxRetries /\ shouldRetry(ErrorMessage(answer))
                 THEN calls' = [calls EXCEPT ![id] =
                        [c EXCEPT !.attempt = @ + 1, !.fetches = @ + 1]]
                 ELSE calls' = [calls EXCEPT ![id] =
                        [c EXCEPT !.pc = "done",
                           !.result = TranslationResponse(c.text, "unknown", 0)]]
              /\ endpoint' = [endpoint EXCEPT !.answered = @ \/ answer.kind = "ok"]
              /\ UNCHANGED cacheVars
         ELSE LET translatedText == Trim(answer.content)
                  result == TranslationResponse(translatedText,
                              detectLanguage(detectAnswer),
                              calculateConfidence(c.text, translatedText))
              IN  /\ endpoint' = [endpoint EXCEPT !.answered = TRUE]
                  /\ IF ShouldCache(result)
                     THEN LET r == CacheSetStore(memoryCache, stats,
                                     CachedTranslation(c.text, result.translatedText,
                                        result.detectedLanguage, c.targetLanguage,
                                        result.confidence, now))
                          IN  /\ memoryCache' = r.cache
                              /\ stats' = r.stats
                              /\ calls' = [calls EXCEPT ![id] =
                                    [c EXCEPT !.pc = "save", !.result = result]]
                     ELSE /\ calls' = [calls EXCEPT ![id] =
                               [c EXCEPT !.pc = "done", !.result = result]]
                          /\ UNCHANGED cacheVars
  /\ UNCHANGED <<now, client, registryVars, cacheCalls, send>>

\* `await this.cache.set(...)` returns and translateText returns its result.
TranslateSaveReturn(id) ==
  /\ calls[id].pc = "save"
  /\ stats' = CacheSetSaved(stats)
  /\ calls' = [calls EXCEPT ![id].pc = "done"]
  /\ UNCHANGED <<now, client, registryVars, memoryCache, cacheCalls, endpoint, send>>

InitTranslator ==
  /\ calls = [id \in Users |-> IdleCall]
  /\ endpoint = [answered |-> FALSE, requests |-> 0]

\* ------------------------- api/conversations/[id]/messages/route.ts (POST)
\* auth() gave no userId; the body held no originalLanguage.
NoUser == "none"
Undefined == "undefined"

\* The rows the database holds: who is in which conversation, in the order
\* getConversationMembers returns them, and users.preferredLanguage.
ConversationMembers(conversationId) ==
  IF conversationId = "c1" THEN <<"A", "B", "C">> ELSE <<"A", "B">>

\* users.preferredLanguage is a nullable column: C has none stored.
NoLanguage == "null"

preferredLanguage(userId) ==
  IF userId = "A" THEN "en" ELSE IF userId = "B" THEN "es" ELSE NoLanguage

IdleSend ==
  [pc |-> "idle", userId |-> NoUser, conversationId |-> NoConv, content |-> <<>>,
   originalLanguage |-> Undefined, message |-> Null, status |-> 0,
   units |-> [u \in Users |-> "none"],
   toConversation |-> 0, toUser |-> [u \in Users |-> <<>>], log |-> <<>>]

\* baseRealtimeMessage, in a new_message envelope.
BaseEvent(message) ==
  [type |-> "new_message", id |-> message.id, content |-> message.content,
   originalContent |-> message.content, originalLanguage |-> message.originalLanguage,
   isTranslated |-> FALSE, targetLanguage |-> Undefined, confidence |-> 0]

\* translatedMessage, in a new_message envelope.
TranslatedEvent(message, targetLanguage, translationResult) ==
  [type |-> "new_message", id |-> message.id,
   content |-> translationResult.translatedText,
   originalContent |-> message.content, originalLanguage |-> message.originalLanguage,
   isTranslated |-> TRUE, targetLanguage |-> targetLanguage,
   confidence |-> translationResult.confidence]

\* recipient.preferredLanguage && recipient.preferredLanguage !== originalLanguage
NeedsTranslation(recipient, originalLanguage) ==
  /\ preferredLanguage(recipient) \notin {NoLanguage, ""}
  /\ preferredLanguage(recipient) # originalLanguage

\* translateMessage: what it resolves to once its translateText call has ended.
translateMessage(call) ==
  IF call.pc = "rejected"
  THEN TranslationResponse(call.text, call.sourceLanguage, 0)
  ELSE call.result

\* A faulty unit that sends nothing when the translation fell back (C1 fails
\* with it).
UnitBroadcastsDropsFallback(message, recipient, translationResult) ==
  IF translationResult.translatedText # <<>> /\ translationResult.confidence > 0
  THEN <<TranslatedEvent(message, preferredLanguage(recipient), translationResult)>>
  ELSE <<>>

\* A faulty unit that marks whatever translateMessage returned as a translation
\* (C13 fails with it).
UnitBroadcastsAlwaysTranslated(message, recipient, translationResult) ==
  <<TranslatedEvent(message, preferredLanguage(recipient), translationResult)>>

\* The payloads a recipient's unit hands to broadcastToUser once
\* translateMessage has returned, in order.
UnitBroadcasts(message, recipient, translationResult) ==
  IF translationResult.translatedText # <<>> /\ translationResult.confidence > 0
  THEN <<TranslatedEvent(message, preferredLanguage(recipient), translationResult)>>
  ELSE <<BaseEvent(message)>>

\* recipients = conversationMembers.filter(member => member.clerkId !== userId)
Recipients(conversationId, userId) ==
  SelectSeq(ConversationMembers(conversationId), LAMBDA m : m # userId)

\* broadcastToUser for each payload of a sequence.
RECURSIVE BroadcastAllToUser(_, _, _)
BroadcastAllToUser(reg, userId, events) ==
  IF events = <<>> THEN reg
  ELSE BroadcastAllToUser(
         broadcastToUser(reg.channels, reg.connections, reg.conversationSubscribers,
                         userId, Head(events)),
         userId, Tail(events))

\* The synchronous part of recipients.map(async recipient => ...): a unit that
\* needs no translation broadcasts at once, the others run translateText up to
\* its first await.  acc: [reg, cache, stats, calls, units, toUser, log].
RECURSIVE StartUnits(_, _, _)
StartUnits(recipients, sd, acc) ==
  IF recipients = <<>> THEN acc
  ELSE
    LET r == Head(recipients)
    IN  IF NeedsTranslation(r, sd.originalLanguage)
        THEN LET b == translateTextBegin(sd.message.content, preferredLanguage(r),
                        IF sd.originalLanguage = Undefined THEN "auto"
                        ELSE sd.originalLanguage,
                        acc.cache, acc.stats, now)
             IN  StartUnits(Tail(recipients), sd,
                   [acc EXCEPT !.cache = b.cache, !.stats = b.stats,
                               !.calls[r] = b.call, !.units[r] = "translating",
                               !.log = Append(@, <<"translateMessage", r>>)])
        ELSE StartUnits(Tail(recipients), sd,
               [acc EXCEPT
                  !.reg = BroadcastAllToUser(@, r, <<BaseEvent(sd.message)>>),
                  !.units[r] = "delivered",
                  !.toUser[r] = Append(@, BaseEvent(sd.message)),
                  !.log = Append(@, <<"broadcastToUser", r>>)])

\* A faulty handler that does not look at the content (C15 fails with it).
PostReceiveUnvalidated(userId, conversationId, content, originalLanguage) ==
  /\ send.pc = "idle"
  /\ send' = [send EXCEPT
       !.userId = userId, !.conversationId = conversationId,
       !.content = content, !.originalLanguage = originalLanguage,
       !.pc = IF userId = NoUser THEN "done" ELSE "persist",
       !.status = IF userId = NoUser THEN 401 ELSE 0]
  /\ UNCHANGED <<now, client, registryVars, cacheVars, cacheCalls, translatorVars>>

\* auth(), request.json() and the validation of the content.
PostReceive(userId, conversationId, content, originalLanguage) ==
  /\ send.pc = "idle"
  /\ send' = [send EXCEPT
       !.userId = userId, !.conversationId = conversationId,
       !.content = content, !.originalLanguage = originalLanguage,
       !.pc = IF userId = NoUser \/ Trim(content) = <<>> THEN "done" ELSE "persist",
       !.status = IF userId = NoUser THEN 401
                  ELSE IF Trim(content) = <<>> THEN 400 ELSE 0]
  /\ UNCHANGED <<now, client, registryVars, cacheVars, cacheCalls, translatorVars>>

\* DatabaseService.sendMessage returns or throws (the database fails, or the
\* sender is no member of the conversation).
PostPersist(stored) ==
  /\ send.pc = "persist"
  /\ stored => \E i \in 1..Len(ConversationMembers(send.conversationId)) :
                  ConversationMembers(send.conversationId)[i] = send.userId
  /\ send' = IF stored
             THEN [send EXCEPT !.pc = "load",
                    !.message = [id |-> 1, content |-> Trim(send.content),
                                 originalLanguage |->
                                   IF send.originalLanguage = Undefined THEN "auto"
                                   ELSE send.originalLanguage]]
             ELSE [send EXCEPT !.pc = "done", !.status = 500]
  /\ UNCHANGED <<now, client, registryVars, cacheVars, cacheCalls, translatorVars>>

\* A faulty fan-out that starts the recipients' units before it broadcasts to
\* the conversation (C16 fails with it).
PostFanOutUnitsFirst(loaded) ==
  /\ send.pc = "load"
  /\ IF ~loaded
     THEN /\ send' = [send EXCEPT !.pc = "done", !.status = 500]
          /\ UNCHANGED <<registryVars, cacheVars, calls>>
     ELSE LET acc == StartUnits(Recipients(send.conversationId, send.userId), send,
                       [reg |-> [channels |-> channels, connections |-> connections,
                                 conversationSubscribers |-> conversationSubscribers],
                        cache |-> memoryCache, stats |-> stats,
                        calls |-> calls, units |-> send.units, toUser |-> send.toUser,
                        log |-> send.log])
              toSender == broadcastToConversation(acc.reg.channels, acc.reg.connections,
                             acc.reg.conversationSubscribers, send.conversationId,
                             BaseEvent(send.message))
          IN  /\ channels' = toSender.channels
              /\ connections' = toSender.connections
              /\ conversationSubscribers' = toSender.conversationSubscribers
              /\ memoryCache' = acc.cache
              /\ stats' = acc.stats
              /\ calls' = acc.calls
              /\ send' = [send EXCEPT !.pc = "settle", !.units = acc.units,
                                      !.toUser = acc.toUser, !.toConversation = @ + 1,
                                      !.log = Append(acc.log,
                                        <<"broadcastToConversation", send.conversationId>>)]
  /\ UNCHANGED <<now, client, cacheCalls, endpoint>>

\* getUserByClerkId and getConversationMembers return or throw; then, without
\* an await between them, broadcastToConversation and the start of every
\* recipient's unit.
PostFanOut(loaded) ==
  /\ send.pc = "load"
  /\ IF ~loaded
     THEN /\ send' = [send EXCEPT !.pc = "done", !.status = 500]
          /\ UNCHANGED <<registryVars, cacheVars, calls>>
     ELSE LET toSender == broadcastToConversation(channels, connections,
                             conversationSubscribers, send.conversationId,
                             BaseEvent(send.message))
              acc == StartUnits(Recipients(send.conversationId, send.userId), send,
                       [reg |-> toSender, cache |-> memoryCache, stats |-> stats,
                        calls |-> calls, units |-> send.units, toUser |-> send.toUser,
                        log |-> Append(send.log,
                                  <<"broadcastToConversation", send.conversationId>>)])
          IN  /\ channels' = acc.reg.channels
              /\ connections' = acc.reg.connections
              /\ conversationSubscribers' = acc.reg.conversationSubscribers
              /\ memoryCache' = acc.cache
              /\ stats' = acc.stats
              /\ calls' = acc.calls
              /\ send' = [send EXCEPT !.pc = "settle", !.units = acc.units,
                                      !.toUser = acc.toUser, !.toConversation = @ + 1,
                                      !.log = acc.log]
  /\ UNCHANGED <<now, client, cacheCalls, endpoint>>

\* `await translateMessage(...)` returns in a recipient's unit.
UnitDeliver(recipient) ==
  /\ send.pc = "settle"
  /\ send.units[recipient] = "translating"
  /\ calls[recipient].pc \in {"done", "rejected"}
  /\ LET events == UnitBroadcasts(send.message, recipient,
                                  translateMessage(calls[recipient]))
         reg == BroadcastAllToUser(
                  [channels |-> channels, connections |-> connections,
                   conversationSubscribers |-> conversationSubscribers],
                  recipient, events)
     IN  /\ channels' = reg.channels
         /\ connections' = reg.connections
         /\ conversationSubscribers' = reg.conversationSubscribers
         /\ send' = [send EXCEPT !.units[recipient] = "delivered",
                                 !.toUser[recipient] = @ \o events,
                                 !.log = @ \o [i \in 1..Len(events) |->
                                                 <<"broadcastToUser", recipient>>]]
  /\ UNCHANGED <<now, client, cacheVars, cacheCalls, translatorVars>>

\* A faulty handler that answers without awaiting the units.
PostRespondEarly ==
  /\ send.pc = "settle"
  /\ send' = [send EXCEPT !.pc = "done", !.status = 200]
  /\ UNCHANGED <<now, client, registryVars, cacheVars, cacheCalls, translatorVars>>

\* Promise.allSettled(translationPromises) returns and the handler answers.
PostRespond ==
  /\ send.pc = "settle"
  /\ \A u \in Users : send.units[u] # "translating"
  /\ send' = [send EXCEPT !.pc = "done", !.status = 200]
  /\ UNCHANGED <<now, client, registryVars, cacheVars, cacheCalls, translatorVars>>

\* ------------------------------------------------ api/realtime/route.ts
\* start(controller) of the stream GET builds.
OpenStream(userId, conversationId) ==
  \E ch \in Channels :
    /\ channels[ch].state = "none"
    /\ \A lower \in Channels : lower < ch => channels[lower].state # "none"
    /\ LET connectionId == ConnectionId(userId, now)
       IN  /\ connections' = addConnection(connections, connectionId,
                 [controller |-> ch, userId |-> userId,
                  conversationIds |-> IF conversationId # NoConv
                                      THEN {conversationId} ELSE {}])
           /\ conversationSubscribers' =
                 IF conversationId # NoConv
                 THEN addSubscriber(conversationSubscribers, conversationId, connectionId)
                 ELSE conversationSubscribers
           /\ channels' = [channels EXCEPT ![ch] =
                 [state |-> "open", connectionId |-> connectionId,
                  userId |-> userId, conversationId |-> conversationId,
                  heartbeat |-> TRUE, listening |-> TRUE, received |-> <<>>]]
    /\ UNCHANGED <<now, client, cacheVars, cacheCalls, translatorVars, send>>

\* What both cleanup paths of start() do with their captured connectionId.
Cleanup(ch) ==
  /\ connections' = removeConnection(connections, channels[ch].connectionId)
  /\ conversationSubscribers' =
       IF channels[ch].conversationId # NoConv
       THEN removeSubscriber(conversationSubscribers,
                             channels[ch].conversationId, channels[ch].connectionId)
       ELSE conversationSubscribers

\* The setInterval callback: a heartbeat that cannot be enqueued cleans up.
Heartbeat(ch) ==
  /\ channels[ch].heartbeat
  /\ IF EnqueueThrows(channels, ch)
     THEN /\ Cleanup(ch)
          /\ channels' = [channels EXCEPT ![ch].heartbeat = FALSE]
     ELSE UNCHANGED <<channels, connections, conversationSubscribers>>
  /\ UNCHANGED <<now, client, cacheVars, cacheCalls, translatorVars, send>>

\* request.signal 'abort' listener.
Abort(ch) ==
  /\ channels[ch].listening
  /\ Cleanup(ch)
  /\ channels' = [channels EXCEPT ![ch].heartbeat = FALSE,
                                  ![ch].listening = FALSE,
                                  ![ch].state = "closed"]
  /\ UNCHANGED <<now, client, cacheVars, cacheCalls, translatorVars, send>>

\* The client side of a stream goes away: from now on enqueue throws.
CloseChannel(ch) ==
  /\ channels[ch].state = "open"
  /\ channels' = [channels EXCEPT ![ch].state = "closed"]
  /\ UNCHANGED <<now, client, connections, conversationSubscribers, cacheVars, cacheCalls, translatorVars, send>>

Tick ==
  /\ now < MaxNow
  /\ now' = now + 1
  /\ UNCHANGED <<registryVars, cacheVars, translatorVars, send, client>>
  /\ cacheCalls' = [cacheCalls EXCEPT !.lastSet = Null]

EmptyStats ==
  [totalRequests |-> 0, cacheHits |-> 0, cacheMisses |-> 0,
   hitRate |-> Fraction(0, 1), memoryEntries |-> 0, dbEntries |-> 0]

NoCacheCalls == [gets |-> <<>>, saves |-> 0, sets |-> 0, lastSet |-> Null]

InitRegistry ==
  /\ channels = [ch \in Channels |-> FreshChannel]
  /\ connections = <<>>
  /\ conversationSubscribers = <<>>

\* ------------------------------------- SSERealtimeService (lib/sse-realtime)
maxReconnectAttempts == 5
reconnectDelay == 1000

\* EventSource objects one service creates in a run, and listeners per event.
MaxSources == 6
MaxListeners == 3
\* setTimeouts of handleReconnect pending at one time.
MaxTimers == 2
\* connect() and disconnect() calls the application makes in a run.
MaxClientCalls == 2

Sources == 1..MaxSources
NoSource == 0

\* The callbacks registered with on(): what each does when it is called.
Listeners == {"render", "faulty", "log"}
ListenerThrows(listener) == listener = "faulty"

ClientEvents == {"connected", "disconnected", "error", "message:new"}

NoEmit == [event |-> "", listeners |-> <<>>, invoked |-> <<>>, threw |-> FALSE]

IdleClient ==
  [sources |-> [s \in Sources |-> "none"],   \* readyState of each EventSource
   eventSource |-> NoSource,
   userId |-> NoUser,
   conversationId |-> NoConv,
   reconnectAttempts |-> 0,
   timers |-> 0,                              \* pending setTimeouts of handleReconnect
   eventListeners |-> [e \in ClientEvents |-> <<>>],
   lastEmit |-> NoEmit,                       \* the last emit(): who was called
   scheduled |-> <<>>,                        \* delays scheduled since the last open
   disconnected |-> FALSE,                    \* disconnect() was the client's last call
   openedSince |-> FALSE,                     \* an EventSource was created since then
   appCalls |-> 0]                            \* connect() and disconnect() calls so far

\* 2^n
RECURSIVE Pow2(_)
Pow2(n) == IF n = 0 THEN 1 ELSE 2 * Pow2(n - 1)

\* on(event, listener) and off(event, listener)
on(listeners, listener) == Append(listeners, listener)

off(listeners, listener) ==
  IF \E i \in 1..Len(listeners) : listeners[i] = listener
  THEN LET index == CHOOSE i \in 1..Len(listeners) :
                      /\ listeners[i] = listener
                      /\ \A j \in 1..(i - 1) : listeners[j] # listener
       IN  [k \in 1..(Len(listeners) - 1) |->
              IF k < index THEN listeners[k] ELSE listeners[k + 1]]
  ELSE listeners

\* emit without the try/catch around each listener: the first listener that
\* throws ends the forEach and the exception leaves emit.
RECURSIVE emitNoCatch(_)
emitNoCatch(listeners) ==
  IF listeners = <<>> THEN [invoked |-> <<>>, threw |-> FALSE]
  ELSE IF ListenerThrows(Head(listeners))
       THEN [invoked |-> <<Head(listeners)>>, threw |-> TRUE]
       ELSE LET rest == emitNoCatch(Tail(listeners))
            IN  [invoked |-> <<Head(listeners)>> \o rest.invoked, threw |-> rest.threw]

\* emit: the listeners the forEach calls, in order, and whether emit throws.
RECURSIVE emit(_)
emit(listeners) ==
  IF listeners = <<>> THEN [invoked |-> <<>>, threw |-> FALSE]
  ELSE LET rest == emit(Tail(listeners))
       IN  [invoked |-> <<Head(listeners)>> \o rest.invoked, threw |-> rest.threw]

\* this.emit(event) inside the service.
Emit(c, event) ==
  LET r == emit(c.eventListeners[event])
  IN  [c EXCEPT !.lastEmit = [event |-> event, listeners |-> c.eventListeners[event],
                              invoked |-> r.invoked, threw |-> r.threw]]

\* A faulty handleReconnect that schedules without looking at the limit.
handleReconnectUnlimited(c) ==
  LET delay == reconnectDelay * Pow2(c.reconnectAttempts)
  IN  [c EXCEPT !.reconnectAttempts = @ + 1,
                !.timers = @ + 1,
                !.scheduled = Append(@, delay)]

handleReconnect(c) ==
  IF c.reconnectAttempts >= maxReconnectAttempts
  THEN Emit(c, "error")
  ELSE LET delay == reconnectDelay * Pow2((c.reconnectAttempts + 1) - 1)
       IN  [c EXCEPT !.reconnectAttempts = @ + 1,
                     !.timers = @ + 1,
                     !.scheduled = Append(@, delay)]

FreeSources(c) == {s \in Sources : c.sources[s] = "none"}

IsOpen(c) == c.eventSource # NoSource /\ c.sources[c.eventSource] = "open"

\* connect(userId, conversationId) up to the return of the Promise executor.
connect(c, userId, conversationId) ==
  IF IsOpen(c) THEN c
  ELSE LET s == CHOOSE f \in FreeSources(c) : \A g \in FreeSources(c) : f <= g
       IN  [c EXCEPT !.userId = userId, !.conversationId = conversationId,
                     !.eventSource = s, !.sources[s] = "connecting",
                     !.openedSince = TRUE]

CanConnect(c) == IsOpen(c) \/ FreeSources(c) # {}

serverVars == <<now, registryVars, cacheVars, cacheCalls, translatorVars, send>>

\* The application calls realtime.connect(user.id, conversationId).
ClientConnect(userId, conversationId) ==
  /\ client.appCalls < MaxClientCalls
  /\ CanConnect(client)
  /\ client' = [connect(client, userId, conversationId) EXCEPT !.disconnected = FALSE,
                                                              !.appCalls = @ + 1]
  /\ UNCHANGED serverVars

\* eventSource.onopen of the source s.
SourceOpen(s) ==
  /\ client.sources[s] = "connecting"
  /\ client' = Emit([client EXCEPT !.sources[s] = "open", !.reconnectAttempts = 0,
                                   !.scheduled = <<>>],
                    "connected")
  /\ UNCHANGED serverVars

\* eventSource.onmessage of the source s with a new_message event.
SourceMessage(s) ==
  /\ client.sources[s] = "open"
  /\ client' = Emit(client, "message:new")
  /\ UNCHANGED serverVars

\* eventSource.onerror of the source s: the browser either retries by itself
\* (readyState CONNECTING) or has given the source up (readyState CLOSED).
SourceError(s, fatal) ==
  /\ client.sources[s] \in {"connecting", "open"}
  /\ client.timers < MaxTimers
  /\ LET c == Emit([client EXCEPT !.sources[s] = IF fatal THEN "closed" ELSE "connecting"],
                   "disconnected")
     IN  client' = IF /\ ~c.lastEmit.threw
                      /\ c.eventSource # NoSource
                      /\ c.sources[c.eventSource] = "closed"
                   THEN handleReconnect(c)
                   ELSE c
  /\ UNCHANGED serverVars

\* The setTimeout callback of handleReconnect runs.
TimerFire ==
  /\ client.timers > 0
  /\ LET c == [client EXCEPT !.timers = @ - 1]
     IN  IF c.userId # NoUser
         THEN /\ CanConnect(c)
              /\ client' = connect(c, c.userId, c.conversationId)
         ELSE client' = c
  /\ UNCHANGED serverVars

\* The application calls disconnect().
ClientDisconnect ==
  /\ client.appCalls < MaxClientCalls
  /\ LET closed == IF client.eventSource # NoSource
                   THEN [client EXCEPT !.sources[client.eventSource] = "closed",
                                       !.eventSource = NoSource]
                   ELSE client
     IN  client' = [Emit(closed, "disconnected") EXCEPT !.disconnected = TRUE,
                                                        !.openedSince = FALSE,
                                                        !.appCalls = @ + 1]
  /\ UNCHANGED serverVars

ClientOn(event, listener) ==
  /\ Len(client.eventListeners[event]) < MaxListeners
  /\ client' = [client EXCEPT !.eventListeners[event] = on(@, listener)]
  /\ UNCHANGED serverVars

ClientOff(event, listener) ==
  /\ client' = [client EXCEPT !.eventListeners[event] = off(@, listener)]
  /\ UNCHANGED serverVars

\* ------------------------------------------------------------ the inputs
Hi == <<"H", "i">>
Hola == <<"h", "o", "l", "a">>
Ola == <<"o", "l", "a">>
Long == <<"h", "o", "l", "a", "h", "o", "l", "a">>
Blank == <<" ">>

DetectAnswers ==
  {Answer("ok", "200", l) : l \in {"en", "es", "xx"}} \cup {Answer("http", "500", "")}

\* A 401 whose body says { error: { message: 'Session timeout' } }.
SessionTimeout == Answer("http", "401", <<"Session", "timeout">>)

FetchAnswers(text) ==
  {Answer("ok", "200", c) : c \in {<<>>, text, Hola, Long}}
  \cup {Answer("http", st, <<>>) : st \in {"500", "401", "429"}}
  \cup {SessionTimeout}
  \cup {Answer("timeout", "", <<>>), Answer("network", "", <<>>)}

TranslatorSteps ==
  \/ \E id \in Users : TranslateCacheReturn(id)
  \/ \E id \in Users, answer \in DetectAnswers : TranslateDetectReturn(id, answer)
  \/ \E id \in Users, detectAnswer \in DetectAnswers :
       \E answer \in FetchAnswers(calls[id].text) :
         TranslateFetchReturn(id, answer, detectAnswer)
  \/ \E id \in Users : TranslateSaveReturn(id)

\* The answers of the endpoint while a send is under way.
SendDetectAnswers ==
  {Answer("ok", "200", "en"), Answer("ok", "200", "es"), Answer("http", "500", "")}

SendFetchAnswers ==
  {Answer("ok", "200", Hola), Answer("ok", "200", Long),
   Answer("http", "500", <<>>), Answer("http", "401", <<>>)}

SendTranslatorSteps ==
  \/ \E id \in Users : TranslateCacheReturn(id)
  \/ \E id \in Users, answer \in SendDetectAnswers : TranslateDetectReturn(id, answer)
  \/ \E id \in Users, detectAnswer \in SendDetectAnswers, answer \in SendFetchAnswers :
       TranslateFetchReturn(id, answer, detectAnswer)
  \/ \E id \in Users : TranslateSaveReturn(id)

\* Who opens streams while a send is under way: the sender and a recipient.
StreamUsers == {"A", "B"}
Senders == {"A", "B", NoUser}
Contents == {<<"H", "i", " ">>, Blank}
\* originalLanguage in the body: a language, 'auto' (what ChatInterface always
\* sends) or nothing.
OriginalLanguages == {"en", "es", "auto", Undefined}

Init ==
  /\ now = 0
  /\ InitRegistry
  /\ memoryCache = <<>>
  /\ stats = EmptyStats
  /\ cacheCalls = NoCacheCalls
  /\ InitTranslator
  /\ send = IdleSend
  /\ client = IdleClient

Next ==
  \/ Tick
  \/ \E u \in StreamUsers, c \in {"c1", NoConv} : OpenStream(u, c)
  \/ \E ch \in Channels : Heartbeat(ch)
  \/ \E ch \in Channels : Abort(ch)
  \/ \E ch \in Channels : CloseChannel(ch)
  \/ \E userId \in Senders, content \in Contents, originalLanguage \in OriginalLanguages :
        PostReceive(userId, "c1", content, originalLanguage)
  \/ \E stored \in BOOLEAN : PostPersist(stored)
  \/ \E loaded \in BOOLEAN : PostFanOut(loaded)
  \/ \E recipient \in Users : UnitDeliver(recipient)
  \/ PostRespond
  \/ SendTranslatorSteps

Spec == Init /\ [][Next]_vars

\* ------------------------------------------------- the claims on a send
RECURSIVE SeqRange(_)
SeqRange(q) == IF q = <<>> THEN {} ELSE {Head(q)} \cup SeqRange(Tail(q))

\* The members other than the sender, once the request has been received.
SendRecipients == SeqRange(Recipients(send.conversationId, send.userId))

Persisted == send.message # Null

\* Every payload handed to broadcastToUser is a new_message event of the message.
CarriesTheMessage(events) ==
  \A i \in 1..Len(events) :
    events[i].type = "new_message" /\ events[i].id = send.message.id

\* C1, as stated: once a send has passed validation and persistence, every
\* member other than the sender has got exactly one broadcastToUser call with
\* a new_message event by the time the handler has answered.
C1_OneCallPerRecipientOncePersisted ==
  (send.pc = "done" /\ Persisted) =>
    \A r \in SendRecipients :
      Len(send.toUser[r]) = 1 /\ CarriesTheMessage(send.toUser[r])

\* C1, amended: a send that has also loaded the sender and the members, and so
\* answers 200, has made exactly one broadcastToUser call with a new_message
\* event for every member other than the sender, whatever translateMessage
\* returned; and no member ever gets a second call.
C1_OneCallPerRecipient ==
  /\ \A u \in Users :
       Len(send.toUser[u]) <= 1 /\ CarriesTheMessage(send.toUser[u])
  /\ (send.pc = "done" /\ send.status = 200) =>
       \A r \in SendRecipients : Len(send.toUser[r]) = 1

\* A send has answered 200 after B's translation fell back with confidence 0
\* and C's unit skipped the translation: both got the untranslated event.
C1_Witness ==
  /\ send.pc = "done" /\ send.status = 200 /\ send.userId = "A"
  /\ calls["B"].pc = "done" /\ calls["B"].result.confidence = 0
  /\ send.toUser["B"] = <<BaseEvent(send.message)>>
  /\ send.toUser["C"] = <<BaseEvent(send.message)>>

RECURSIVE CallsToUsers(_)
CallsToUsers(us) ==
  IF us = {} THEN 0
  ELSE LET u == CHOOSE x \in us : TRUE
       IN  Len(send.toUser[u]) + CallsToUsers(us \ {u})

\* The broadcast calls of the send: the one to the conversation and those to users.
DeliveryAttempts == send.toConversation + CallsToUsers(Users)

\* How often a channel has been pushed an event of the message.
Pushed(ch, id) ==
  Cardinality({i \in 1..Len(channels[ch].received) : channels[ch].received[i].id = id})

\* C2: a send to a conversation of N members that has answered 200 has made N
\* delivery attempts, one to the conversation and one per recipient, and no
\* connection has been pushed the message more than once.
C2_NAttemptsNoRepeat ==
  /\ (send.pc = "done" /\ send.status = 200) =>
       DeliveryAttempts = Len(ConversationMembers(send.conversationId))
  /\ Persisted => \A ch \in Channels : Pushed(ch, send.message.id) <= 1

\* The language a text is written in: the texts users send here are English.
TextLanguage(text) == "en"

\* The source language of the message of the send: the one the body names,
\* else the one the text is written in.
SourceLanguage ==
  IF send.originalLanguage \in {"auto", Undefined}
  THEN TextLanguage(send.content)
  ELSE send.originalLanguage

\* C12: a recipient whose preferred language is the source language of the
\* message is sent the original text with isTranslated = false, and
\* translateText is not called for that recipient.
C12_SameLanguageGetsOriginal ==
  send.pc \in {"settle", "done"} /\ send.status \in {0, 200} =>
    \A r \in SendRecipients :
      preferredLanguage(r) = SourceLanguage =>
        /\ calls[r].pc = "idle"
        /\ send.units[r] = "delivered" =>
             /\ Len(send.toUser[r]) = 1
             /\ send.toUser[r][1].isTranslated = FALSE
             /\ send.toUser[r][1].content = send.message.content

\* translateWithRetry made all its attempts for the recipient and every one of
\* them was answered 500.
AllAttemptsAnswered500(r) ==
  /\ calls[r].pc = "done"
  /\ calls[r].fetches = maxRetries
  /\ calls[r].only500

\* C13: a recipient whose translation got 500 on all maxRetries attempts is
\* sent a new_message event with the original text and isTranslated = false,
\* nothing but new_message events are sent, and the send answers 200.
C13_All500StillDelivers ==
  \A r \in Users :
    send.units[r] # "none" /\ AllAttemptsAnswered500(r) =>
      /\ send.units[r] = "delivered" =>
           /\ send.toUser[r] = <<BaseEvent(send.message)>>
           /\ send.toUser[r][1].isTranslated = FALSE
           /\ send.toUser[r][1].content = send.message.content
      /\ CarriesTheMessage(send.toUser[r])
      /\ send.pc = "done" => send.status = 200 /\ send.units[r] = "delivered"

\* The endpoint has answered nothing but 500, B's translation has used up its
\* attempts, and the send has answered.
C13_Witness ==
  /\ send.pc = "done" /\ send.status = 200
  /\ ~endpoint.answered
  /\ AllAttemptsAnswered500("B")
  /\ send.toUser["B"] = <<BaseEvent(send.message)>>

\* The send has made no broadcast call.
NoBroadcasts ==
  send.toConversation = 0 /\ \A u \in Users : send.toUser[u] = <<>>

\* C15: as long as the message is not persisted no broadcast call is made; a
\* send whose sendMessage failed answers 500; a send whose content is empty or
\* whitespace is answered with a 4xx at once, before sendMessage is called.
C15_NoBroadcastWithoutMessage ==
  /\ ~Persisted => NoBroadcasts
  /\ send.pc = "done" /\ ~Persisted =>
       send.status = IF send.userId = NoUser THEN 401
                     ELSE IF Trim(send.content) = <<>> THEN 400 ELSE 500
  /\ send.pc # "idle" /\ Trim(send.content) = <<>> =>
       send.pc = "done" /\ send.status \in {400, 401} /\ ~Persisted

\* sendMessage has failed for a valid send while a recipient's stream,
\* subscribed to the conversation, was open: the stream got nothing.
C15_Witness ==
  /\ send.pc = "done" /\ send.status = 500 /\ ~Persisted
  /\ send.userId = "A" /\ Trim(send.content) # <<>>
  /\ \E ch \in Channels :
       /\ channels[ch].state = "open"
       /\ channels[ch].userId = "B"
       /\ channels[ch].conversationId = send.conversationId
       /\ channels[ch].received = <<>>

\* C16: in the order of the calls of a send, broadcastToConversation with the
\* base message comes before every translateMessage call and before every
\* broadcastToUser call.
C16_ConversationBroadcastFirst ==
  /\ send.log # <<>> => send.log[1][1] = "broadcastToConversation"
  /\ \A j \in 1..Len(send.log) :
       send.log[j][1] \in {"translateMessage", "broadcastToUser"} =>
         \E i \in 1..(j - 1) : send.log[i][1] = "broadcastToConversation"

\* A send to three members has answered after one unit translated and the
\* other broadcast at once.
C16_Witness ==
  /\ send.pc = "done" /\ send.status = 200
  /\ \E j \in 1..Len(send.log) : send.log[j][1] = "translateMessage"
  /\ Cardinality({j \in 1..Len(send.log) : send.log[j][1] = "broadcastToUser"}) = 2

\* The events of the message a channel holds.
Holds(chs, ch, event) ==
  \E i \in 1..Len(chs[ch].received) : chs[ch].received[i] = event

\* C17: when the handler fans a message out, every connection of the sender
\* that takes a push is pushed the untranslated message, subscribed to the
\* conversation or not.
C17_SenderConnectionsGetBase ==
  [][PostFanOut(TRUE) =>
       \A id \in DOMAIN connections :
         (/\ connections[id].userId = send.userId
          /\ ~EnqueueThrows(channels, connections[id].controller)) =>
           Holds(channels', connections[id].controller, BaseEvent(send.message))]_vars

\* C22: a connection that is pushed the translated rendering of the message
\* for a member whose language is not the source language is not pushed the
\* untranslated rendering of that message.
C22_OnlyTranslatedRendering ==
  \A ch \in Channels :
    \A i \in 1..Len(channels[ch].received) :
      LET e == channels[ch].received[i]
      IN  (/\ e.isTranslated
           /\ e.targetLanguage # SourceLanguage
           /\ e.content # e.originalContent) =>
            ~Holds(channels, ch, BaseEvent(send.message))

IsPrefix(s, t) == Len(s) <= Len(t) /\ \A i \in 1..Len(s) : t[i] = s[i]

\* C27: the handler answers only when no unit it started is still under way,
\* and no step takes back an event that was pushed to a stream or a broadcast
\* that was made, whatever becomes of the units that settle later.
C27_AnswerAfterUnitsNothingUndone ==
  [][/\ (send.pc # "done" /\ send'.pc = "done") =>
          \A u \in Users : send.units[u] # "translating"
     /\ \A ch \in Channels :
          channels[ch].state # "none" =>
            IsPrefix(channels[ch].received, channels'[ch].received)
     /\ send.toConversation <= send'.toConversation
     /\ \A u \in Users : IsPrefix(send.toUser[u], send'.toUser[u])]_vars

\* The send has answered 200 after B's translation fell back; the broadcast to
\* the conversation and the delivery to C, both made before, still stand.
C27_Witness ==
  /\ send.pc = "done" /\ send.status = 200
  /\ calls["B"].pc = "done" /\ calls["B"].result.confidence = 0
  /\ send.units["B"] = "delivered"
  /\ send.toUser["C"] = <<BaseEvent(send.message)>>
  /\ \E ch \in Channels :
       channels[ch].state = "open" /\ Holds(channels, ch, BaseEvent(send.message))

\* ------------------------------------------- the cache called on its own
\* Direct get/set calls in one run.
MaxCacheOps == 2

\* The text of the i-th entry of a warm cache: "a", "aa", ...
WarmText(i) == [j \in 1..i |-> "a"]

\* A cache after `warm` sets one tick before the run, the first `hot` of them read once since
\* (every entry of a warm cache holds Hola; the direct sets store Ola).
WarmCache(warm, hot) ==
  [i \in 1..warm |->
     [CachedTranslation(WarmText(i), Hola, "en", "es", 85, -1)
        EXCEPT !.hitCount = IF i <= hot THEN 1 ELSE 0]]

WarmStats(warm, hot) ==
  updateHitRate([EmptyStats EXCEPT !.totalRequests = hot, !.cacheHits = hot,
                                   !.memoryEntries = warm, !.dbEntries = warm])

CacheTexts == {WarmText(1), <<"H", "i">>, <<"h", "i", " ">>}
CacheSources == {"en", "auto"}

CacheOpsLeft == Len(cacheCalls.gets) + cacheCalls.sets < MaxCacheOps

\* get(text, sourceLanguage, targetLanguage) up to its return or its await.
CacheGetCall(text, sourceLanguage, targetLanguage) ==
  /\ CacheOpsLeft
  /\ LET key == generateKey(text, sourceLanguage, targetLanguage)
         r == CacheGetLookup(memoryCache, stats, key, now)
         i == IndexOf(memoryCache, key)
     IN  /\ memoryCache' = r.cache
         /\ stats' = r.stats
         /\ cacheCalls' = [cacheCalls EXCEPT
              !.gets = Append(@,
                 [key |-> key, at |-> now,
                  held |-> IF i = 0 THEN Null ELSE memoryCache[i],
                  afterSet |-> IF cacheCalls.lastSet # Null /\ cacheCalls.lastSet.id = key
                               THEN cacheCalls.lastSet ELSE Null,
                  outcome |-> IF r.result = Null THEN "pending" ELSE "hit",
                  result |-> r.result]),
              !.lastSet = Null]
  /\ UNCHANGED <<now, client, registryVars, translatorVars, send>>

\* get after its await on the database tier.
CacheGetReturn(g) ==
  /\ g \in 1..Len(cacheCalls.gets)
  /\ cacheCalls.gets[g].outcome = "pending"
  /\ LET r == CacheGetDatabase(memoryCache, stats, cacheCalls.gets[g].key, now)
     IN  /\ memoryCache' = r.cache
         /\ stats' = r.stats
         /\ cacheCalls' = [cacheCalls EXCEPT
              !.gets[g].outcome = IF r.result = Null THEN "miss" ELSE "hit",
              !.gets[g].result = r.result,
              !.lastSet = Null]
  /\ UNCHANGED <<now, client, registryVars, translatorVars, send>>

\* set(text, translatedText, sourceLanguage, targetLanguage, confidence) up to its await.
CacheSetCall(text, translatedText, sourceLanguage, targetLanguage, confidence) ==
  /\ CacheOpsLeft
  /\ LET cached == CachedTranslation(text, translatedText, sourceLanguage,
                                     targetLanguage, confidence, now)
         r == CacheSetStore(memoryCache, stats, cached)
     IN  /\ memoryCache' = r.cache
         /\ stats' = r.stats
         /\ cacheCalls' = [cacheCalls EXCEPT !.saves = @ + 1, !.sets = @ + 1,
                                             !.lastSet = cached]
  /\ UNCHANGED <<now, client, registryVars, translatorVars, send>>

\* set after its await on saveToDatabase.
CacheSetReturn ==
  /\ cacheCalls.saves > 0
  /\ stats' = CacheSetSaved(stats)
  /\ cacheCalls' = [cacheCalls EXCEPT !.saves = @ - 1]
  /\ UNCHANGED <<now, client, registryVars, memoryCache, translatorVars, send>>

\* The setInterval sweep of the constructor.
CleanupExpired ==
  /\ memoryCache' = cleanupExpired(memoryCache, now)
  /\ stats' = IF Len(memoryCache') < Len(memoryCache)
              THEN [stats EXCEPT !.memoryEntries = Len(memoryCache')]
              ELSE stats
  /\ cacheCalls' = [cacheCalls EXCEPT !.lastSet = Null]
  /\ UNCHANGED <<now, client, registryVars, translatorVars, send>>

InitCache ==
  /\ now = 0
  /\ InitRegistry
  /\ \E warm \in {0, maxMemoryEntries} : \E hot \in {0, warm} :
       /\ memoryCache = WarmCache(warm, hot)
       /\ stats = WarmStats(warm, hot)
  /\ cacheCalls = NoCacheCalls
  /\ InitTranslator
  /\ send = IdleSend
  /\ client = IdleClient

NextCache ==
  \/ Tick
  \/ \E text \in CacheTexts, src \in CacheSources : CacheGetCall(text, src, "es")
  \/ \E g \in 1..MaxCacheOps : CacheGetReturn(g)
  \/ \E text \in CacheTexts, src \in CacheSources :
        CacheSetCall(text, Ola, src, "es", 85)
  \/ CacheSetReturn
  \/ CleanupExpired

SpecCache == InitCache /\ [][NextCache]_vars

\* getStats(): a copy of the statistics.
getStats == stats

Gets == {cacheCalls.gets[g] : g \in 1..Len(cacheCalls.gets)}
NoGetSuspended == \A g \in Gets : g.outcome # "pending"

SameStored(a, b) ==
  /\ a.id = b.id
  /\ a.originalText = b.originalText
  /\ a.translatedText = b.translatedText
  /\ a.sourceLanguage = b.sourceLanguage
  /\ a.targetLanguage = b.targetLanguage
  /\ a.confidence = b.confidence
  /\ a.timestamp = b.timestamp

\* C4: a get that directly follows a set of the same key (no other cache call,
\* sweep or clock tick between them) returns the entry that set stored.
C4_SetThenGetReturnsStored ==
  \A g \in Gets :
    g.afterSet # Null /\ g.outcome # "pending" =>
      g.outcome = "hit" /\ SameStored(g.result, g.afterSet)

\* C5: no get returns an entry older than maxAge; a get that finds such an
\* entry still held in the memory tier returns null and is counted as a miss.
C5_ExpiredEntryIsAbsent ==
  /\ \A g \in Gets :
       /\ g.result # Null => g.at - g.result.timestamp <= maxAge
       /\ g.held # Null /\ g.at - g.held.timestamp > maxAge =>
            g.result = Null /\ g.outcome \in {"pending", "miss"}
  /\ getStats.cacheMisses = Cardinality({g \in 1..Len(cacheCalls.gets) :
                                          cacheCalls.gets[g].outcome = "miss"})

\* A get has found an entry older than maxAge still held in the memory tier
\* and has been counted as a miss.
C5_Witness ==
  \E g \in Gets :
    /\ g.held # Null
    /\ g.at - g.held.timestamp > maxAge
    /\ g.outcome = "miss"
    /\ IndexOf(memoryCache, g.key) # 0

\* C6: the memory tier never holds more than maxMemoryEntries entries, whatever
\* the interleaving of gets and sets.
C6_CapacityBound == Len(memoryCache) <= maxMemoryEntries

\* A set has pushed a full warm cache past capacity and the eviction has run.
C6_Witness ==
  /\ now = 0
  /\ cacheCalls.sets > 0
  /\ Len(memoryCache) = maxMemoryEntries + 1 - toRemove
  /\ \E i \in 1..maxMemoryEntries :
       IndexOf(memoryCache, generateKey(WarmText(i), "en", "es")) = 0

PutBySet == CachePut(memoryCache, cacheCalls'.lastSet)

EvictedBySet == {i \in 1..Len(PutBySet) : IndexOf(memoryCache', PutBySet[i].id) = 0}

C28_StatsConsistent ==
  /\ getStats.cacheHits + getStats.cacheMisses = getStats.totalRequests
  /\ getStats.memoryEntries = Len(memoryCache)

\* ---------------------------------------- the translator called on its own
\* translateText calls made in one run (POST /api/translate, testConnection).
MaxRequests == 2

\* translator.translateText({text, targetLanguage, sourceLanguage}) is called.
TranslateRequest(id, text, targetLanguage, sourceLanguage) ==
  /\ calls[id].pc \in {"idle", "done", "rejected"}
  /\ endpoint.requests < MaxRequests
  /\ LET r == translateTextBegin(text, targetLanguage, sourceLanguage,
                                 memoryCache, stats, now)
     IN  /\ calls' = [calls EXCEPT ![id] = r.call]
         /\ memoryCache' = r.cache
         /\ stats' = r.stats
  /\ endpoint' = [endpoint EXCEPT !.requests = @ + 1]
  /\ UNCHANGED <<now, client, registryVars, cacheCalls, send>>

Callers == {"A", "B"}
RequestTexts == {Hi, Blank}
RequestTargets == {"en", "es", ""}
RequestSources == {"auto", "en"}

NextTranslator ==
  \/ Tick
  \/ \E id \in Callers, text \in RequestTexts, tgt \in RequestTargets,
        src \in RequestSources : TranslateRequest(id, text, tgt, src)
  \/ TranslatorSteps

SpecTranslator == Init /\ [][NextTranslator]_vars

ValidRequest(c) == Trim(c.text) # <<>> /\ c.targetLanguage # ""

\* C3: while no call of the external endpoint has ever been answered,
\* translateText with a non-empty text and a target language does not reject,
\* and resolves with the original text and confidence 0.
C3_FallbackWhenEndpointFails ==
  \A id \in Users :
    ~endpoint.answered /\ calls[id].pc # "idle" /\ ValidRequest(calls[id]) =>
      /\ calls[id].pc # "rejected"
      /\ calls[id].pc = "done" =>
           /\ calls[id].result.translatedText = calls[id].text
           /\ calls[id].result.confidence = 0

\* The failure classes of an attempt, by what the endpoint did.
Retryable(answer) ==
  \/ answer.kind \in {"timeout", "network"}
  \/ answer.kind = "http" /\ answer.status \in {"500", "502", "503", "504", "429"}

NonRetryable(answer) ==
  answer.kind = "http" /\ answer.status \in {"401", "403"}

\* C18: one translateText call makes at most maxRetries attempts against the
\* endpoint; a further attempt follows only a retryable failure (timeout,
\* network, 5xx, rate-limit), and none follows a non-retryable failure (auth).
C18_RetryOnlyRetryable ==
  [][\A id \in Users, detectAnswer \in DetectAnswers :
       \A answer \in FetchAnswers(calls[id].text) :
         TranslateFetchReturn(id, answer, detectAnswer) =>
           /\ calls'[id].fetches <= maxRetries
           /\ calls'[id].fetches > calls[id].fetches =>
                AttemptFails(answer) /\ Retryable(answer)
           /\ NonRetryable(answer) => calls'[id].fetches = calls[id].fetches]_vars

\* The memory tier holds the pass-through of the call's text for the language.
HoldsPassThrough(cache, c, language) ==
  \E i \in 1..Len(cache) :
    /\ cache[i].id = generateKey(c.text, language, c.targetLanguage)
    /\ cache[i].translatedText = c.text
    /\ cache[i].confidence = 95

\* C24: on a cache miss where detectLanguage answers the target language,
\* translateText makes no call for a translation, resolves with the original
\* text and confidence 0.95, and stores that result in the cache.
C24_DetectedTargetPassesThrough ==
  [][\A id \in Users, answer \in DetectAnswers :
       (/\ TranslateDetectReturn(id, answer)
        /\ detectLanguage(answer) = calls[id].targetLanguage) =>
         /\ calls'[id].fetches = 0
         /\ calls'[id].pc \in {"save", "done"}
         /\ calls'[id].result.translatedText = calls[id].text
         /\ calls'[id].result.confidence = 95
         /\ HoldsPassThrough(memoryCache', calls[id], detectLanguage(answer))]_vars

\* C25: a result of translateWithRetry is written to the cache only if its
\* confidence is above 0.5: the fallback (confidence 0) and an extreme length
\* ratio (confidence 0.5) neither create nor overwrite an entry.
C25_OnlyConfidentResultsCached ==
  [][\A id \in Users, detectAnswer \in DetectAnswers :
       \A answer \in FetchAnswers(calls[id].text) :
         TranslateFetchReturn(id, answer, detectAnswer) =>
           /\ (calls'[id].pc # "fetch" /\ calls'[id].result.confidence <= 50) =>
                memoryCache' = memoryCache
           /\ memoryCache' # memoryCache =>
                /\ calls'[id].result.confidence > 50
                /\ \E i \in 1..Len(memoryCache') :
                     /\ memoryCache'[i].confidence = calls'[id].result.confidence
                     /\ memoryCache'[i].translatedText = calls'[id].result.translatedText]_vars

\* One call has ended with confidence 0.5 and another with the fallback, and
\* the cache holds nothing.
C25_Witness ==
  /\ memoryCache = <<>>
  /\ \E id \in Callers :
       calls[id].pc = "done" /\ calls[id].fetches > 0 /\ calls[id].result.confidence = 50
  /\ \E id \in Callers :
       calls[id].pc = "done" /\ calls[id].fetches > 0 /\ calls[id].result.confidence = 0

\* The translator over a cache that other calls have filled before the run.
SpecTranslatorWarm == InitCache /\ [][NextTranslator]_vars

\* The translator when the endpoint may stay silent. What the code itself
\* schedules does happen: the awaits on the cache settle, and the timer raced
\* against the fetch of translateWithRetry fires ('Translation timeout').
\* Nothing makes the endpoint answer, and the fetch of detectLanguage is raced
\* against no timer, so the step out of "detect" carries no fairness.
Timeout == Answer("timeout", "", <<>>)

TranslatorFairness ==
  \A id \in Callers :
    /\ WF_vars(TranslateCacheReturn(id))
    /\ WF_vars(TranslateSaveReturn(id))
    /\ WF_vars(\E d \in DetectAnswers : TranslateFetchReturn(id, Timeout, d))

SpecTranslatorLive == Init /\ [][NextTranslator]_vars /\ TranslatorFairness

Pending(id) == calls[id].pc \in {"cacheGet", "detect", "fetch", "save"}

\* C19: every translateText call eventually completes, even if the external
\* endpoint never answers.
C19_EveryCallCompletes ==
  \A id \in Callers : Pending(id) ~> calls[id].pc = "done"

\* --------------------------------------------- the registry on its own
\* How many events a channel takes before its reader stops.
MaxReceived == 2

Notice == BaseEvent([id |-> 1, content |-> Hi, originalLanguage |-> "en"])

HasRoom(ids) ==
  \A id \in ids \cap DOMAIN connections :
    Len(channels[connections[id].controller].received) < MaxReceived

BroadcastToConversationCall(conversationId, message) ==
  /\ conversationId \in DOMAIN conversationSubscribers
       => HasRoom(conversationSubscribers[conversationId])
  /\ LET reg == broadcastToConversation(channels, connections,
                  conversationSubscribers, conversationId, message)
     IN  /\ channels' = reg.channels
         /\ connections' = reg.connections
         /\ conversationSubscribers' = reg.conversationSubscribers
  /\ UNCHANGED <<now, client, cacheVars, cacheCalls, translatorVars, send>>

BroadcastToUserCall(userId, message) ==
  /\ HasRoom({id \in DOMAIN connections : connections[id].userId = userId})
  /\ LET reg == broadcastToUser(channels, connections,
                  conversationSubscribers, userId, message)
     IN  /\ channels' = reg.channels
         /\ connections' = reg.connections
         /\ conversationSubscribers' = reg.conversationSubscribers
  /\ UNCHANGED <<now, client, cacheVars, cacheCalls, translatorVars, send>>

NextRegistry ==
  \/ Tick
  \/ \E u \in Users, c \in Conversations \cup {NoConv} : OpenStream(u, c)
  \/ \E ch \in Channels : Heartbeat(ch)
  \/ \E ch \in Channels : Abort(ch)
  \/ \E ch \in Channels : CloseChannel(ch)
  \/ \E c \in Conversations : BroadcastToConversationCall(c, Notice)
  \/ \E u \in Users : BroadcastToUserCall(u, Notice)

SpecRegistry == Init /\ [][NextRegistry]_vars

PushFails(id) == EnqueueThrows(channels, connections[id].controller)

Subscribed(subs, id) == \E c \in DOMAIN subs : id \in subs[c]

\* C8: when broadcastToUser returns, every connection of the user on which the
\* push failed is gone from the connection table and from every subscriber set.
C8_FailedPushForgetsConnection ==
  [][\A u \in Users :
       BroadcastToUserCall(u, Notice) =>
         \A id \in DOMAIN connections :
           (connections[id].userId = u /\ PushFails(id)) =>
             /\ id \notin DOMAIN connections'
             /\ ~Subscribed(conversationSubscribers', id)]_vars

\* C9: every connectionId in a conversation's subscriber set is a key of the
\* connection table.
C9_SubscribersAreConnections ==
  \A c \in DOMAIN conversationSubscribers :
    conversationSubscribers[c] \subseteq DOMAIN connections

\* The connectionIds the subscription index holds that the table does not.
Dangling ==
  UNION {conversationSubscribers[c] : c \in DOMAIN conversationSubscribers}
    \ DOMAIN connections

\* C10: a connectionId the subscription index references and the connection
\* table lacks is referenced by no subscriber set once the next
\* broadcastToConversation or broadcastToUser call has returned.
C10_DanglingGoneAfterBroadcast ==
  [][(\/ \E c \in Conversations : BroadcastToConversationCall(c, Notice)
      \/ \E u \in Users : BroadcastToUserCall(u, Notice))
       => \A id \in Dangling : ~Subscribed(conversationSubscribers', id)]_vars

\* The connectionIds broadcastToConversation finds for a conversation, and
\* those of them whose push throws.
SubscribersOf(c) ==
  IF c \in DOMAIN conversationSubscribers
  THEN conversationSubscribers[c] \cap DOMAIN connections
  ELSE {}

\* C11: broadcastToConversation(c, payload) pushes the payload to every
\* subscribed connection that takes it, whatever happens on the others, and
\* when it returns every connection whose push failed is gone from the
\* connection table and from every subscriber set.
C11_ConversationBroadcastSelfHeals ==
  [][\A c \in Conversations :
       BroadcastToConversationCall(c, Notice) =>
         \A id \in SubscribersOf(c) :
           IF PushFails(id)
           THEN /\ id \notin DOMAIN connections'
                /\ ~Subscribed(conversationSubscribers', id)
           ELSE /\ id \in DOMAIN connections'
                /\ channels'[connections[id].controller].received =
                     Append(channels[connections[id].controller].received, Notice)]_vars

\* The call has ended with a translation the endpoint produced.
Translated(c) ==
  c.pc = "done" /\ c.fetches >= 1 /\ c.result.confidence > 0

\* C14: once a translateText call has ended with a translation, a later call
\* with the same text, sourceLanguage argument and targetLanguage finds the
\* translation in the cache, and a call served from the cache makes no request
\* to the translation endpoint.
C14_RepeatServedFromCache ==
  [][/\ \A id \in Callers, text \in RequestTexts, tgt \in RequestTargets,
          src \in RequestSources :
          (/\ TranslateRequest(id, text, tgt, src)
           /\ \E prev \in Callers :
                /\ Translated(calls[prev])
                /\ calls[prev].text = text
                /\ calls[prev].targetLanguage = tgt
                /\ calls[prev].sourceLanguage = src)
            => calls'[id].cached # Null
     /\ \A id \in Callers :
          calls'[id].cached # Null => calls'[id].fetches = 0]_vars

\* C20: broadcastToUser(u, payload) pushes the payload to every connection of
\* the table owned by u that takes a push, and to no stream of another user.
C20_UserBroadcastReachesOnlyOwner ==
  [][\A u \in Users :
       BroadcastToUserCall(u, Notice) =>
         /\ \A id \in DOMAIN connections :
              connections[id].userId = u /\ ~PushFails(id) =>
                channels'[connections[id].controller].received =
                  Append(channels[connections[id].controller].received, Notice)
         /\ \A ch \in Channels :
              channels[ch].userId # u =>
                channels'[ch].received = channels[ch].received]_vars

\* Two users hold open, registered streams; the one subscribed to no
\* conversation has been pushed the payload, the other has been pushed nothing.
C20_Witness ==
  \E i, j \in DOMAIN connections :
    LET ci == channels[connections[i].controller]
        cj == channels[connections[j].controller]
    IN  /\ connections[i].userId # connections[j].userId
        /\ ci.state = "open" /\ cj.state = "open"
        /\ ci.conversationId = NoConv
        /\ Holds(channels, connections[i].controller, Notice)
        /\ cj.received = <<>>

\* A stream that was opened and whose cleanup has not run.
Live(ch) == channels[ch].state = "open" /\ channels[ch].listening

\* C21: every open push channel has a connectionId distinct from that of every
\* other live channel, also when one user opens two channels at the same time.
C21_ConnectionIdsDistinct ==
  \A a, b \in Channels :
    a # b /\ Live(a) /\ Live(b) =>
      channels[a].connectionId # channels[b].connectionId

\* ------------------------------------------- the client service on its own
\* Connecting, failing, reconnecting and disconnecting, with no listener
\* registered.
NextClient ==
  \/ \E u \in {"A"}, c \in {"c1"} : ClientConnect(u, c)
  \/ \E s \in Sources : SourceOpen(s)
  \/ \E s \in Sources, fatal \in BOOLEAN : SourceError(s, fatal)
  \/ TimerFire
  \/ ClientDisconnect

SpecClient == Init /\ [][NextClient]_vars

\* The events the application listens to in a run.
ListenEvents == {"message:new"}

\* Listeners coming and going around the emits of a stream that does not fail.
NextListeners ==
  \/ \E u \in {"A"}, c \in {"c1"} : ClientConnect(u, c)
  \/ \E s \in Sources : SourceOpen(s)
  \/ \E s \in Sources : SourceMessage(s)
  \/ ClientDisconnect
  \/ \E e \in ListenEvents, l \in Listeners : ClientOn(e, l)
  \/ \E e \in ListenEvents, l \in Listeners : ClientOff(e, l)

SpecListeners == Init /\ [][NextListeners]_vars

\* C23: when an event is emitted to listeners of which one throws, every
\* listener registered for the event is still called, in order, and emit does
\* not throw.
C23_ThrowingListenerIsIsolated ==
  (\E i \in 1..Len(client.lastEmit.listeners) :
      ListenerThrows(client.lastEmit.listeners[i])) =>
    /\ ~client.lastEmit.threw
    /\ client.lastEmit.invoked = client.lastEmit.listeners

\* The last emit went to three listeners, the first of which threw, and the
\* two after it were called.
C23_Witness ==
  /\ Len(client.lastEmit.listeners) = 3
  /\ ListenerThrows(client.lastEmit.listeners[1])
  /\ Len(client.lastEmit.invoked) = 3
  /\ ~ListenerThrows(client.lastEmit.invoked[2])
  /\ ~ListenerThrows(client.lastEmit.invoked[3])

\* C29: after disconnect(), no EventSource is created until the application
\* calls connect() again, even with a reconnect timer pending.
C29_NoOpenAfterDisconnect ==
  client.disconnected => ~client.openedSince

BackoffDelays == <<1000, 2000, 4000, 8000, 16000>>

\* C30: at most maxReconnectAttempts reconnects are scheduled without a
\* successful open between them, the k-th after 1000 * 2^(k-1) ms; onopen sets
\* the attempt counter to 0; at the limit no further reconnect is scheduled.
C30_BoundedBackoff ==
  [][/\ Len(client'.scheduled) <= 5
     /\ \A k \in 1..Len(client'.scheduled) :
          k <= 5 => client'.scheduled[k] = BackoffDelays[k]
     /\ (\E s \in Sources : SourceOpen(s)) => client'.reconnectAttempts = 0
     /\ Len(client.scheduled) >= 5 =>
          /\ client'.timers <= client.timers
          /\ Len(client'.scheduled) <= Len(client.scheduled)]_vars

\* Five reconnects were scheduled and failed in a row, and the sixth failure
\* raised 'error' instead of scheduling another.
C30_Witness ==
  /\ Len(client.scheduled) = 5
  /\ client.scheduled[5] = 16000
  /\ client.timers = 0
  /\ client.lastEmit.event = "error"

====
